---------------------------- MODULE Spec2Model ----------------------------
(***************************************************************************)
(* The typed relation-data binding layer of hello-kubecon:                 *)
(* lib/charms/core/relations.py (BaseRelationData, parse_relation_data)    *)
(* together with the record types of src/domain/config.py.                 *)
(*                                                                         *)
(* Text is a sequence of one-character strings, so that str(), json.dumps, *)
(* json.loads and name.replace("_", "-") are computed character by         *)
(* character.  A Python object is a record [t, n, e, s, items]:            *)
(*   t = "str"    s is the text                                            *)
(*   t = "int"    n is the value                                           *)
(*   t = "bool"   n is 0 or 1                                              *)
(*   t = "float"  finite: the value is n / 10^e (e >= 0, n not a multiple  *)
(*                of 10 when e > 0) and s = <<>>; otherwise s is one of    *)
(*                inf, -inf, nan and n = e = 0                             *)
(*   t = "none"   None                                                     *)
(*   t = "list"   items are the elements                                   *)
(*   t = "dict"   items are pairs, t = "pair", s the key, items = <<v>>    *)
(*   t = "model"  a pydantic BaseModel instance, s the class name, items   *)
(*                its fields as pairs                                      *)
(***************************************************************************)
EXTENDS Integers, Sequences, FiniteSets, TLC

VARIABLES
    cls,        \* the record type (a BaseRelationData subclass) under study
    fields,     \* the record instance: field name -> Python object
    relation,   \* self._relation: the bag the record is bound to, or "None"
    bags,       \* the databags: bag id -> (key text -> value text)
    complete,   \* history: the latest bind wrote every field, and no assignment
                \* since then raised after updating the record
    prev,       \* history: the bag this instance was bound to before its latest
                \* bind or unbind, or "None"
    last,       \* history: the last operation, its arguments and its outcome
    charm       \* the unit of HelloKubeconCharm and what its last event did

vars == <<cls, fields, relation, bags, complete, prev, last, charm>>

-----------------------------------------------------------------------------
(* Bounds of the model *)

\* length of the lists assigned to a sequence field
MaxItems == 2

-----------------------------------------------------------------------------
(* Python objects *)

Obj(t, n, e, s, items) == [t |-> t, n |-> n, e |-> e, s |-> s, items |-> items]

StrV(s) == Obj("str", 0, 0, s, <<>>)
IntV(n) == Obj("int", n, 0, <<>>, <<>>)
BoolV(b) == Obj("bool", IF b THEN 1 ELSE 0, 0, <<>>, <<>>)
FloatV(m, e) == Obj("float", m, e, <<>>, <<>>)
InfV == Obj("float", 0, 0, <<"i", "n", "f">>, <<>>)
NegInfV == Obj("float", 0, 0, <<"-", "i", "n", "f">>, <<>>)
NanV == Obj("float", 0, 0, <<"n", "a", "n">>, <<>>)
NoneV == Obj("none", 0, 0, <<>>, <<>>)
ListV(items) == Obj("list", 0, 0, <<>>, items)
PairV(k, v) == Obj("pair", 0, 0, k, <<v>>)
DictV(pairs) == Obj("dict", 0, 0, <<>>, pairs)
ModelV(c, pairs) == Obj("model", 0, 0, c, pairs)

IsFinite(v) == v.t = "float" /\ v.s = <<>>

-----------------------------------------------------------------------------
(* str() of numbers *)

Digit(d) == <<"0", "1", "2", "3", "4", "5", "6", "7", "8", "9">>[d + 1]

RECURSIVE Digits(_)
Digits(n) == IF n < 10 THEN <<Digit(n)>>
             ELSE Digits(n \div 10) \o <<Digit(n % 10)>>

RECURSIVE Pow10(_)
Pow10(k) == IF k = 0 THEN 1 ELSE 10 * Pow10(k - 1)

RECURSIVE PadDigits(_, _)
PadDigits(n, w) == IF w = 0 THEN <<>>
                   ELSE PadDigits(n \div 10, w - 1) \o <<Digit(n % 10)>>

\* int.__str__
IntStr(n) == IF n < 0 THEN <<"-">> \o Digits(-n) ELSE Digits(n)

\* float.__repr__ of a float in the positional range (1e-4 <= |x| < 1e16)
FloatRepr(v) ==
    IF ~IsFinite(v) THEN v.s
    ELSE LET a == IF v.n < 0 THEN -v.n ELSE v.n
             sign == IF v.n < 0 THEN <<"-">> ELSE <<>>
         IN  IF v.e = 0 THEN sign \o Digits(a) \o <<".", "0">>
             ELSE sign \o Digits(a \div Pow10(v.e)) \o <<".">>
                       \o PadDigits(a % Pow10(v.e), v.e)

\* str(value) for the scalars serialize() passes to it
PyStr(v) ==
    CASE v.t = "str" -> v.s
      [] v.t = "int" -> IntStr(v.n)
      [] v.t = "bool" -> IF v.n = 1 THEN <<"T", "r", "u", "e">>
                         ELSE <<"F", "a", "l", "s", "e">>
      [] v.t = "float" -> FloatRepr(v)

-----------------------------------------------------------------------------
(* json.dumps(obj, default=pydantic_encoder) *)

\* json.encoder: py_encode_basestring_ascii
RECURSIVE JsonEscape(_)
JsonEscape(s) ==
    IF s = <<>> THEN <<>>
    ELSE (CASE Head(s) = "\"" -> <<"\\", "\"">>
            [] Head(s) = "\\" -> <<"\\", "\\">>
            [] OTHER -> <<Head(s)>>) \o JsonEscape(Tail(s))

JsonString(s) == <<"\"">> \o JsonEscape(s) \o <<"\"">>

\* json float_repr: float.__repr__, with the non-finite constants spelled out
JsonFloat(v) ==
    CASE IsFinite(v) -> FloatRepr(v)
      [] v = InfV -> <<"I", "n", "f", "i", "n", "i", "t", "y">>
      [] v = NegInfV -> <<"-", "I", "n", "f", "i", "n", "i", "t", "y">>
      [] OTHER -> <<"N", "a", "N">>

\* BaseModel.dict() / model_dump(): nested models become dicts
RECURSIVE ModelDump(_)
RECURSIVE DumpItems(_)
DumpItems(items) ==
    IF items = <<>> THEN <<>>
    ELSE <<ModelDump(Head(items))>> \o DumpItems(Tail(items))
ModelDump(v) ==
    CASE v.t = "model" -> DictV(DumpItems(v.items))
      [] v.t \in {"list", "dict", "pair"} -> [v EXCEPT !.items = DumpItems(v.items)]
      [] OTHER -> v

RECURSIVE JsonEnc(_)
RECURSIVE JsonJoin(_)
JsonJoin(items) ==
    IF items = <<>> THEN <<>>
    ELSE JsonEnc(Head(items))
         \o (IF Len(items) > 1 THEN <<",", " ">> ELSE <<>>)
         \o JsonJoin(Tail(items))
JsonEnc(v) ==
    CASE v.t = "str" -> JsonString(v.s)
      [] v.t = "int" -> IntStr(v.n)
      [] v.t = "bool" -> IF v.n = 1 THEN <<"t", "r", "u", "e">>
                         ELSE <<"f", "a", "l", "s", "e">>
      [] v.t = "float" -> JsonFloat(v)
      [] v.t = "none" -> <<"n", "u", "l", "l">>
      [] v.t = "list" -> <<"[">> \o JsonJoin(v.items) \o <<"]">>
      [] v.t = "dict" -> <<"{">> \o JsonJoin(v.items) \o <<"}">>
      [] v.t = "pair" -> JsonString(v.s) \o <<":", " ">> \o JsonEnc(v.items[1])
      \* default=pydantic_encoder: a BaseModel is encoded as its model_dump()
      [] v.t = "model" -> JsonEnc(ModelDump(v))

\* cls._backend: the class attribute is "json" and no operation of the
\* repository assigns it
backend == "json"

\* cls._dumps()
dumps(obj) == JsonEnc(obj)


-----------------------------------------------------------------------------
(* json.loads(raw): the result is [ok, v]; ok = FALSE is json.JSONDecodeError *)

IsDigit(c) == c \in {"0", "1", "2", "3", "4", "5", "6", "7", "8", "9"}

DigitVal(c) == CHOOSE d \in 0..9 : Digit(d) = c

\* the character at position i, or "" past the end
At(s, i) == IF i >= 1 /\ i <= Len(s) THEN s[i] ELSE ""

\* whether text w occurs in s at position i
StartsAt(s, i, w) ==
    /\ i + Len(w) - 1 <= Len(s)
    /\ \A k \in 1..Len(w) : s[i + k - 1] = w[k]

\* json.decoder WHITESPACE.match
RECURSIVE SkipWs(_, _)
SkipWs(s, i) == IF At(s, i) \in {" ", "\t", "\n", "\r"} THEN SkipWs(s, i + 1) ELSE i

\* the position after the run of digits that starts at i
RECURSIVE ScanDigits(_, _)
ScanDigits(s, i) == IF IsDigit(At(s, i)) THEN ScanDigits(s, i + 1) ELSE i

\* the number written by the digits s[i..j-1]
RECURSIVE DigitsVal(_, _, _)
DigitsVal(s, i, j) ==
    IF i >= j THEN 0 ELSE 10 * DigitsVal(s, i, j - 1) + DigitVal(s[j - 1])

\* a finite float m / 10^e in the normal form of FloatV
RECURSIVE NormFloat(_, _)
NormFloat(m, e) ==
    IF e < 0 THEN NormFloat(m * Pow10(-e), 0)
    ELSE IF e > 0 /\ m % 10 = 0 THEN NormFloat(m \div 10, e - 1)
    ELSE FloatV(m, e)

NoObj == NoneV
Fail == [ok |-> FALSE, v |-> NoObj, i |-> 0]
Done(v, i) == [ok |-> TRUE, v |-> v, i |-> i]

\* json.scanner NUMBER_RE: (-?(?:0|[1-9]\d*))(\.\d+)?([eE][-+]?\d+)?
ScanNumber(s, i) ==
    LET neg == At(s, i) = "-"
        j0 == IF neg THEN i + 1 ELSE i
        j1 == IF At(s, j0) = "0" THEN j0 + 1 ELSE ScanDigits(s, j0)
        hasFrac == At(s, j1) = "." /\ IsDigit(At(s, j1 + 1))
        j2 == IF hasFrac THEN ScanDigits(s, j1 + 1) ELSE j1
        k0 == IF At(s, j2 + 1) \in {"+", "-"} THEN j2 + 2 ELSE j2 + 1
        hasExp == At(s, j2) \in {"e", "E"} /\ IsDigit(At(s, k0))
        j3 == IF hasExp THEN ScanDigits(s, k0) ELSE j2
        sgn == IF neg THEN -1 ELSE 1
        ip == DigitsVal(s, j0, j1)
        fl == IF hasFrac THEN j2 - (j1 + 1) ELSE 0
        fp == IF hasFrac THEN DigitsVal(s, j1 + 1, j2) ELSE 0
        ex == IF ~hasExp THEN 0
              ELSE (IF At(s, j2 + 1) = "-" THEN -1 ELSE 1) * DigitsVal(s, k0, j3)
    IN  IF ~IsDigit(At(s, j0)) THEN Fail
        ELSE IF ~hasFrac /\ ~hasExp THEN Done(IntV(sgn * ip), j1)
        ELSE Done(NormFloat(sgn * (ip * Pow10(fl) + fp), fl - ex), j3)

\* json.decoder py_scanstring, from the position after the opening quote
\* (\b and \uXXXX escapes are outside the alphabet of the model)
RECURSIVE ScanString(_, _, _)
ScanString(s, i, acc) ==
    LET c == At(s, i)
        d == At(s, i + 1)
    IN  IF c = "" THEN Fail
        ELSE IF c = "\"" THEN Done(StrV(acc), i + 1)
        ELSE IF c \in {"\t", "\n", "\r", "\f"} THEN Fail
        ELSE IF c # "\\" THEN ScanString(s, i + 1, Append(acc, c))
        ELSE IF d \in {"\"", "\\", "/"} THEN ScanString(s, i + 2, Append(acc, d))
        ELSE IF d = "n" THEN ScanString(s, i + 2, Append(acc, "\n"))
        ELSE IF d = "t" THEN ScanString(s, i + 2, Append(acc, "\t"))
        ELSE IF d = "r" THEN ScanString(s, i + 2, Append(acc, "\r"))
        ELSE IF d = "f" THEN ScanString(s, i + 2, Append(acc, "\f"))
        ELSE Fail

\* dict[key] = value on a sequence of pairs: a repeated key keeps its place
DictSet(pairs, k, v) ==
    IF \E p \in 1..Len(pairs) : pairs[p].s = k
    THEN [p \in 1..Len(pairs) |-> IF pairs[p].s = k THEN PairV(k, v) ELSE pairs[p]]
    ELSE Append(pairs, PairV(k, v))

\* the tail of _scan_once: num is the match of NUMBER_RE at i
NumberOrConstant(s, i, num) ==
    IF num.ok THEN num
    ELSE IF StartsAt(s, i, <<"N", "a", "N">>) THEN Done(NanV, i + 3)
    ELSE IF StartsAt(s, i, <<"I", "n", "f", "i", "n", "i", "t", "y">>)
        THEN Done(InfV, i + 8)
    ELSE IF StartsAt(s, i, <<"-", "I", "n", "f", "i", "n", "i", "t", "y">>)
        THEN Done(NegInfV, i + 9)
    ELSE Fail

\* json.scanner py_make_scanner._scan_once, JSONArray and JSONObject
RECURSIVE ScanOnce(_, _)
RECURSIVE ArrayNext(_, _, _)
RECURSIVE ObjectColon(_, _, _)
RECURSIVE ObjectNext(_, _, _, _)
RECURSIVE ScanArray(_, _, _)
RECURSIVE ScanObject(_, _, _)
ScanOnce(s, i) ==
    LET c == At(s, i)
    IN  IF c = "" THEN Fail
        ELSE IF c = "\"" THEN ScanString(s, i + 1, <<>>)
        ELSE IF c = "{" THEN
            (IF At(s, SkipWs(s, i + 1)) = "}"
             THEN Done(DictV(<<>>), SkipWs(s, i + 1) + 1)
             ELSE ScanObject(s, SkipWs(s, i + 1), <<>>))
        ELSE IF c = "[" THEN
            (IF At(s, SkipWs(s, i + 1)) = "]"
             THEN Done(ListV(<<>>), SkipWs(s, i + 1) + 1)
             ELSE ScanArray(s, SkipWs(s, i + 1), <<>>))
        ELSE IF StartsAt(s, i, <<"n", "u", "l", "l">>) THEN Done(NoneV, i + 4)
        ELSE IF StartsAt(s, i, <<"t", "r", "u", "e">>) THEN Done(BoolV(TRUE), i + 4)
        ELSE IF StartsAt(s, i, <<"f", "a", "l", "s", "e">>) THEN Done(BoolV(FALSE), i + 5)
        ELSE NumberOrConstant(s, i, ScanNumber(s, i))
\* i is at the first character of an element
ScanArray(s, i, acc) == ArrayNext(s, acc, ScanOnce(s, i))
\* r is the element just scanned: a comma or the closing bracket follows
ArrayNext(s, acc, r) ==
    IF ~r.ok THEN Fail
    ELSE IF At(s, SkipWs(s, r.i)) = "]"
        THEN Done(ListV(Append(acc, r.v)), SkipWs(s, r.i) + 1)
    ELSE IF At(s, SkipWs(s, r.i)) = ","
        THEN ScanArray(s, SkipWs(s, SkipWs(s, r.i) + 1), Append(acc, r.v))
    ELSE Fail
\* i is at the opening quote of a key
ScanObject(s, i, acc) ==
    IF At(s, i) = "\"" THEN ObjectColon(s, acc, ScanString(s, i + 1, <<>>)) ELSE Fail
\* k is the key just scanned: a colon and the value follow
ObjectColon(s, acc, k) ==
    IF k.ok /\ At(s, SkipWs(s, k.i)) = ":"
    THEN ObjectNext(s, acc, k.v.s, ScanOnce(s, SkipWs(s, SkipWs(s, k.i) + 1)))
    ELSE Fail
\* r is the value just scanned: a comma or the closing brace follows
ObjectNext(s, acc, key, r) ==
    IF ~r.ok THEN Fail
    ELSE IF At(s, SkipWs(s, r.i)) = "}"
        THEN Done(DictV(DictSet(acc, key, r.v)), SkipWs(s, r.i) + 1)
    ELSE IF At(s, SkipWs(s, r.i)) = ","
        THEN ScanObject(s, SkipWs(s, SkipWs(s, r.i) + 1), DictSet(acc, key, r.v))
    ELSE Fail

\* json.loads: one value between optional whitespace, and nothing after it
JsonEnd(raw, r) ==
    IF r.ok /\ SkipWs(raw, r.i) = Len(raw) + 1
    THEN [ok |-> TRUE, v |-> r.v]
    ELSE [ok |-> FALSE, v |-> NoObj]
JsonLoads(raw) == JsonEnd(raw, ScanOnce(raw, SkipWs(raw, 1)))

\* cls._loads()
loads(raw) == JsonLoads(raw)

-----------------------------------------------------------------------------
(* Record types: the BaseRelationData subclasses the repository declares *)

\* domain/config.py PeerRelationAppData; the class Foo of the BaseRelationData
\* docstring; ingress.py IngressRelationData, which names its base class
\* RelationDataModel (of its fourteen fields the first and two of the eleven
\* optional ones are kept, in their order)
Classes == {"PeerRelationAppData", "Foo", "IngressRelationData"}

my_key == <<"m", "y", "_", "k", "e", "y">>
complex_property == <<"c", "o", "m", "p", "l", "e", "x", "_", "p", "r", "o", "p", "e", "r", "t", "y">>
bar == <<"b", "a", "r">>
baz == <<"b", "a", "z">>
service_hostname == <<"s", "e", "r", "v", "i", "c", "e", "_", "h", "o", "s", "t", "n", "a", "m", "e">>
limit_rps == <<"l", "i", "m", "i", "t", "_", "r", "p", "s">>
max_body_size == <<"m", "a", "x", "_", "b", "o", "d", "y", "_", "s", "i", "z", "e">>

\* cls.__fields__.keys(), in declaration order
Fields(c) ==
    CASE c = "PeerRelationAppData" -> <<my_key, complex_property>>
      [] c = "Foo" -> <<bar, baz>>
      [] c = "IngressRelationData" -> <<service_hostname, limit_rps, max_body_size>>

FieldSet(c) == {Fields(c)[k] : k \in 1..Len(Fields(c))}

\* field.annotation
Annotation(c, f) ==
    CASE f = my_key -> "float"
      [] f = complex_property -> "List[SubField]"
      [] f = bar -> "int"
      [] f = baz -> "float"
      [] f = service_hostname -> "str"
      [] f = limit_rps -> "Optional[str]"
      [] f = max_body_size -> "Optional[str]"

\* whether the declaration gives the field a default, and the default
HasDefault(c, f) == f \in {limit_rps, max_body_size}
Default(c, f) == NoneV

\* domain/config.py SubField(subkey=s)
subkey == <<"s", "u", "b", "k", "e", "y">>
SubField(s) == ModelV(<<"S", "u", "b", "F", "i", "e", "l", "d">>, <<PairV(subkey, StrV(s))>>)

-----------------------------------------------------------------------------
(* pydantic validation of one value against an annotation (lax mode):     *)
(* [ok, v], v the coerced value; ok = FALSE is a ValidationError           *)

Valid(v) == [ok |-> TRUE, v |-> v]
Invalid == [ok |-> FALSE, v |-> NoObj]

\* str -> int: an optional sign and digits
StrToInt(s) ==
    LET j0 == IF At(s, 1) \in {"-", "+"} THEN 2 ELSE 1
    IN  IF IsDigit(At(s, j0)) /\ ScanDigits(s, j0) = Len(s) + 1
        THEN Valid(IntV((IF At(s, 1) = "-" THEN -1 ELSE 1) * DigitsVal(s, j0, Len(s) + 1)))
        ELSE Invalid

\* str -> float: a decimal number, or inf / nan
WholeNumber(s, r) ==
    IF s \in {InfV.s, NegInfV.s, NanV.s} THEN Valid(Obj("float", 0, 0, s, <<>>))
    ELSE IF r.ok /\ r.i = Len(s) + 1
    THEN Valid(IF r.v.t = "int" THEN FloatV(r.v.n, 0) ELSE r.v)
    ELSE Invalid
StrToFloat(s) == WholeNumber(s, ScanNumber(s, 1))

\* the value of key k in a dict object, or absent
DictHas(d, k) == \E p \in 1..Len(d.items) : d.items[p].s = k
DictGet(d, k) == d.items[CHOOSE p \in 1..Len(d.items) : d.items[p].s = k].items[1]

ValidateStr(v) == IF v.t = "str" THEN Valid(v) ELSE Invalid

\* SubField: an instance, or a mapping with a str under subkey
SubFieldOf(x) == IF x.t = "str" THEN Valid(SubField(x.s)) ELSE Invalid
ValidateSubField(v) ==
    IF v.t = "model" /\ v.s = <<"S", "u", "b", "F", "i", "e", "l", "d">> THEN Valid(v)
    ELSE IF v.t = "dict" /\ DictHas(v, subkey) THEN SubFieldOf(DictGet(v, subkey))
    ELSE Invalid

\* List[SubField]: items are the validated elements
ListOf(items) ==
    IF \A k \in 1..Len(items) : items[k].ok
    THEN Valid(ListV([k \in 1..Len(items) |-> items[k].v]))
    ELSE Invalid

Validate(ann, v) ==
    CASE ann = "float" ->
            (CASE v.t = "float" -> Valid(v)
               [] v.t \in {"int", "bool"} -> Valid(FloatV(v.n, 0))
               [] v.t = "str" -> StrToFloat(v.s)
               [] OTHER -> Invalid)
      [] ann = "int" ->
            (CASE v.t \in {"int", "bool"} -> Valid(IntV(v.n))
               [] v.t = "float" -> IF IsFinite(v) /\ v.e = 0 THEN Valid(IntV(v.n)) ELSE Invalid
               [] v.t = "str" -> StrToInt(v.s)
               [] OTHER -> Invalid)
      [] ann = "str" -> ValidateStr(v)
      [] ann = "Optional[str]" -> IF v.t = "none" THEN Valid(v) ELSE ValidateStr(v)
      [] ann = "List[SubField]" ->
            IF v.t = "list"
            THEN ListOf([k \in 1..Len(v.items) |-> ValidateSubField(v.items[k])])
            ELSE Invalid

\* cls(**kwargs): every declared field validated, an absent one takes its
\* default, and a required absent one is an error.  [raised, fields]
ValidateField(c, kwargs, f) ==
    IF f \in DOMAIN kwargs THEN Validate(Annotation(c, f), kwargs[f])
    ELSE IF HasDefault(c, f) THEN Valid(Default(c, f))
    ELSE Invalid
ModelBuild(vals) ==
    IF \A f \in DOMAIN vals : vals[f].ok
    THEN [raised |-> "", fields |-> [f \in DOMAIN vals |-> vals[f].v]]
    ELSE [raised |-> "ValidationError", fields |-> [f \in DOMAIN vals |-> NoObj]]
ModelInit(c, kwargs) == ModelBuild([f \in FieldSet(c) |-> ValidateField(c, kwargs, f)])

-----------------------------------------------------------------------------
(* BaseRelationData *)

\* name.replace("_", "-", 1): only the first underscore is replaced
RECURSIVE Replace_First(_)
Replace_First(name) ==
    IF name = <<>> THEN <<>>
    ELSE IF Head(name) = "_" THEN <<"-">> \o Tail(name)
    ELSE <<Head(name)>> \o Replace_First(Tail(name))

\* name.replace("_", "-")
RECURSIVE Replace(_)
Replace(name) ==
    IF name = <<>> THEN <<>>
    ELSE <<IF Head(name) = "_" THEN "-" ELSE Head(name)>> \o Replace(Tail(name))

\* serialize that keeps the field's name as the key, underscores included
serialize_RawKey(name, value) ==
    IF value.t \in {"str", "int", "bool", "float"}
    THEN [raised |-> "", key |-> name, value |-> PyStr(value)]
    ELSE IF value.t = "model"
    THEN [raised |-> "", key |-> name, value |-> dumps(ModelDump(value))]
    ELSE IF value.t \in {"dict", "list"}
    THEN [raised |-> "", key |-> name, value |-> dumps(value)]
    ELSE [raised |-> "ValueError", key |-> <<>>, value |-> <<>>]

\* serialize that writes a value of any other type with str(), None as None
serialize_StrOfAnything(name, value) ==
    IF value.t \in {"str", "int", "bool", "float"}
    THEN [raised |-> "", key |-> Replace(name), value |-> PyStr(value)]
    ELSE IF value.t = "model"
    THEN [raised |-> "", key |-> Replace(name), value |-> dumps(ModelDump(value))]
    ELSE IF value.t \in {"dict", "list"}
    THEN [raised |-> "", key |-> Replace(name), value |-> dumps(value)]
    ELSE [raised |-> "", key |-> Replace(name), value |-> <<"N", "o", "n", "e">>]

\* serialize(name, value): [raised, key, value]
serialize(name, value) ==
    IF value.t \in {"str", "int", "bool", "float"}
    THEN [raised |-> "", key |-> Replace(name), value |-> PyStr(value)]
    ELSE IF value.t = "model"
    THEN [raised |-> "", key |-> Replace(name), value |-> dumps(ModelDump(value))]
    ELSE IF value.t \in {"dict", "list"}
    THEN [raised |-> "", key |-> Replace(name), value |-> dumps(value)]
    ELSE [raised |-> "ValueError", key |-> <<>>, value |-> <<>>]

\* an item assignment that replaces the content of the bag by the one entry
BagSet_Fresh(bag, key, value) ==
    [k \in {key} |-> value]

\* relation_data[key] = value
BagSet(bag, key, value) ==
    [k \in DOMAIN bag \cup {key} |-> IF k = key THEN value ELSE bag[k]]

\* the loop of bind over the fields names, from bag: it stops at the first
\* field serialize refuses.  [raised, bag]
RECURSIVE BindLoop(_, _, _)
RECURSIVE BindStep(_, _, _, _)
BindLoop(rec, names, bag) ==
    IF names = <<>> THEN [raised |-> "", bag |-> bag]
    ELSE BindStep(rec, names, bag, serialize(Head(names), rec[Head(names)]))
BindStep(rec, names, bag, ser) ==
    IF ser.raised # "" THEN [raised |-> ser.raised, bag |-> bag]
    ELSE BindLoop(rec, Tail(names), BagSet(bag, ser.key, ser.value))

\* read(relation_data): [raised, fields]
Decode(c, bag, f) ==
    IF Annotation(c, f) \in {"str", "int"}
    THEN [ok |-> TRUE, v |-> StrV(bag[Replace(f)])]
    ELSE loads(bag[Replace(f)])
\* dec are the decoded fields, those whose key is in the bag
Construct(c, dec) ==
    IF \E f \in DOMAIN dec : ~dec[f].ok
    THEN [raised |-> "JSONDecodeError", fields |-> [f \in FieldSet(c) |-> NoObj]]
    ELSE ModelInit(c, [f \in DOMAIN dec |-> dec[f].v])
\* read that hands a failed construction back as a value instead of raising
read_ReturnsFailure(c, bag) ==
    [Construct(c, [f \in {g \in FieldSet(c) : Replace(g) \in DOMAIN bag} |-> Decode(c, bag, f)])
        EXCEPT !.raised = IF @ = "ValidationError" THEN "" ELSE @]

read(c, bag) ==
    Construct(c, [f \in {g \in FieldSet(c) : Replace(g) \in DOMAIN bag} |-> Decode(c, bag, f)])

\* __setattr__(name, value) on the record rec of class c bound to rel:
\* [raised, fields, bags]
\* write-through that reaches every bag of the relation, not only the one
\* the record is bound to
WriteThrough_EveryBag(rec, rel, bgs, ser) ==
    IF rel = "None"
    THEN [raised |-> "", fields |-> rec, bags |-> bgs]
    ELSE IF ser.raised # ""
    THEN [raised |-> ser.raised, fields |-> rec, bags |-> bgs]
    ELSE [raised |-> "", fields |-> rec,
          bags |-> [x \in DOMAIN bgs |-> BagSet(bgs[x], ser.key, ser.value)]]

\* lines 122-126: rec holds the new value, ser is its serialization
WriteThrough(rec, rel, bgs, ser) ==
    IF rel = "None"
    THEN [raised |-> "", fields |-> rec, bags |-> bgs]
    ELSE IF ser.raised # ""
    THEN [raised |-> ser.raised, fields |-> rec, bags |-> bgs]
    ELSE [raised |-> "", fields |-> rec,
          bags |-> [bgs EXCEPT ![rel] = BagSet(@, ser.key, ser.value)]]
\* line 121, BaseModel.__setattr__ under validate_assignment: val is the
\* outcome of the validation
Assign(rec, rel, bgs, name, val) ==
    IF ~val.ok
    THEN [raised |-> "ValidationError", fields |-> rec, bags |-> bgs]
    ELSE WriteThrough([rec EXCEPT ![name] = val.v], rel, bgs, serialize(name, val.v))
\* __setattr__ that writes the raw value through before validating it
setattr_WriteFirst(c, rec, rel, bgs, name, value) ==
    IF Validate(Annotation(c, name), value).ok
    THEN Assign(rec, rel, bgs, name, Validate(Annotation(c, name), value))
    ELSE [raised |-> "ValidationError", fields |-> rec,
          bags |-> WriteThrough(rec, rel, bgs, serialize(name, value)).bags]

\* __setattr__ that validates and stores the value but never writes it through
setattr_NoWrite(c, rec, rel, bgs, name, value) ==
    Assign(rec, "None", bgs, name, Validate(Annotation(c, name), value))

setattr(c, rec, rel, bgs, name, value) ==
    Assign(rec, rel, bgs, name, Validate(Annotation(c, name), value))

\* bind that is undone when the loop fails: the record is left unbound and
\* the bag as it was
Bound_Atomic(bgs, b, w) ==
    IF w.raised # ""
    THEN [raised |-> w.raised, relation |-> "None", bags |-> bgs]
    ELSE [raised |-> w.raised, relation |-> b, bags |-> [bgs EXCEPT ![b] = w.bag]]

\* bind(relation) on the record rec of class c: [raised, relation, bags];
\* w is the outcome of the loop
Bound(bgs, b, w) ==
    [raised |-> w.raised, relation |-> b, bags |-> [bgs EXCEPT ![b] = w.bag]]

\* bind that only stores the reference and writes nothing
bind_NoFlush(c, rec, bgs, b) == [raised |-> "", relation |-> b, bags |-> bgs]

bind(c, rec, bgs, b) == Bound(bgs, b, BindLoop(rec, Fields(c), bgs[b]))

\* unbind that keeps the reference
unbind_Keep(rel) == rel

\* unbind(): the new self._relation
unbind(rel) == "None"

\* parse_relation_data(app_model, unit_model)(f) called on an event: am and um
\* tell whether a model is given for the side.  [raised, called, app, unit],
\* called the number of calls of f, app and unit what f receives
Parsed(given, r) ==
    IF ~given THEN "None" ELSE IF r.raised = "" THEN "record" ELSE r.raised
\* a and u are the outcomes of the two reads, made only for a given model
Wrapped(am, um, a, u) ==
    IF am /\ a.raised \notin {"", "ValidationError"}
    THEN [raised |-> a.raised, called |-> 0, app |-> "", unit |-> ""]
    ELSE IF um /\ u.raised \notin {"", "ValidationError"}
    THEN [raised |-> u.raised, called |-> 0, app |-> "", unit |-> ""]
    ELSE [raised |-> "", called |-> 1, app |-> Parsed(am, a), unit |-> Parsed(um, u)]
event_wrapper(c, am, um, bgs) ==
    Wrapped(am, um, read(c, bgs["app"]), read(c, bgs["unit"]))

\* a call of event_wrapper(self, event), whose outcome when called with these
\* two arguments is r, with nargs further positional arguments
CallWrapper(nargs, r) ==
    IF nargs # 0
    THEN [raised |-> "TypeError", called |-> 0, app |-> "", unit |-> ""]
    ELSE r

\* line 196 when f is itself an event_wrapper: outer is the outcome of the
\* outer wrapper had f returned, inner the outcome of f called with an event
StackedCall(outer, inner) ==
    IF outer.raised # "" THEN outer ELSE CallWrapper(2, inner)

\* parse_relation_data(app_model, unit_model) stacked on a handler already
\* decorated with parse_relation_data(app_model=c)
stacked_wrapper(c, am, um, bgs) ==
    StackedCall(event_wrapper(c, am, um, bgs), event_wrapper(c, TRUE, FALSE, bgs))

-----------------------------------------------------------------------------
(* The inputs of the model *)

\* event.relation.data[event.app] and event.relation.data[event.unit]
BagIds == {"app", "unit"}

EmptyBag == << >>

SubKeys == {<<"a", "\"", "\\">>}

\* the objects assigned to a field of the annotation, valid and invalid; the
\* lists assigned hold MaxItems sub-fields (the empty list and a list of one
\* come in from the bags)
Inputs(ann) ==
    CASE ann = "float" -> {IntV(42), InfV, StrV(<<"n", "o", "t", "-", "a", "-", "n", "u", "m", "b", "e", "r">>)}
      [] ann = "int" -> {IntV(80), StrV(<<"-", "5">>), FloatV(5, 1)}
      [] ann = "str" -> {StrV(<<"a", "\"", "b">>), IntV(1)}
      [] ann = "Optional[str]" -> {NoneV, StrV(<<"5">>), IntV(1)}
      [] ann = "List[SubField]" ->
            {ListV([k \in 1..MaxItems |-> SubField(q[k])]) : q \in [1..MaxItems -> SubKeys]}
            \cup {IntV(1)}

Bag2(k1, v1, k2, v2) == BagSet(BagSet(EmptyBag, k1, v1), k2, v2)

\* the content the application bag starts with: written by this charm, by a
\* peer, or by hand
InitBags(c) ==
    CASE c = "PeerRelationAppData" ->
            {EmptyBag,
             Bag2(<<"m", "y", "-", "k", "e", "y">>, <<"4", "2", ".", "0">>, <<"c", "o", "m", "p", "l", "e", "x", "-", "p", "r", "o", "p", "e", "r", "t", "y">>, <<"[", "{", "\"", "s", "u", "b", "k", "e", "y", "\"", ":", " ", "\"", "e", "n", "r", "i", "c", "o", "\"", "}", "]">>),
             Bag2(<<"m", "y", "-", "k", "e", "y">>, <<"n", "o", "t", "-", "a", "-", "n", "u", "m", "b", "e", "r">>, <<"c", "o", "m", "p", "l", "e", "x", "-", "p", "r", "o", "p", "e", "r", "t", "y">>, <<"[", "]">>),
             Bag2(<<"m", "y", "-", "k", "e", "y">>, <<"n", "u", "l", "l">>, <<"c", "o", "m", "p", "l", "e", "x", "-", "p", "r", "o", "p", "e", "r", "t", "y">>, <<"[", "]">>),
             Bag2(<<"m", "y", "-", "k", "e", "y">>, <<"4", "2", ".", "0">>, <<"e", "g", "r", "e", "s", "s">>, <<"x">>)}
      [] c = "Foo" ->
            {EmptyBag,
             Bag2(<<"b", "a", "r">>, <<"1">>, <<"b", "a", "z">>, <<"0", ".", "5">>),
             Bag2(<<"b", "a", "r">>, <<"x">>, <<"b", "a", "z">>, <<"0", ".", "5">>),
             BagSet(EmptyBag, <<"b", "a", "z">>, <<"i", "n", "f">>)}
      [] c = "IngressRelationData" ->
            {EmptyBag,
             Bag2(<<"s", "e", "r", "v", "i", "c", "e", "-", "h", "o", "s", "t", "n", "a", "m", "e">>, <<"h">>, <<"m", "a", "x", "-", "b", "o", "d", "y", "-", "s", "i", "z", "e">>, <<"\"", "5", "\"">>),
             Bag2(<<"s", "e", "r", "v", "i", "c", "e", "-", "h", "o", "s", "t", "n", "a", "m", "e">>, <<"h">>, <<"l", "i", "m", "i", "t", "-", "r", "p", "s">>, <<"5">>)}

-----------------------------------------------------------------------------
(* The state machine: one record instance and the two bags of a relation *)

Op(op, f, raised) ==
    [op |-> op, f |-> f, raised |-> raised,
     called |-> 0, app |-> "", unit |-> ""]

\* container.get_plan().to_dict().get("services", {}) of a container whose
\* plan has no layer
NoServices == [n \in {} |-> n]

\* the unit before any event: its status, the source of /srv/index.html, the
\* services of the plan of the gosherve container, the answers of is_leader
\* in the last event (to __init__ and to the handler), what the last action
\* handler received and told the action, and whether the last event added a
\* layer to the plan and restarted the service
NoCharm ==
    [status |-> "UnknownStatus", site |-> <<>>, services |-> NoServices,
     ctx_leader |-> FALSE, is_leader |-> FALSE,
     params |-> "", failed |-> "", results |-> "",
     added |-> FALSE, restarted |-> FALSE]

\* a record built by business logic, not yet bound
Init ==
    /\ cls \in Classes
    /\ \E kwargs \in [FieldSet(cls) -> UNION {Inputs(Annotation(cls, f)) : f \in FieldSet(cls)}] :
          /\ \A f \in FieldSet(cls) : kwargs[f] \in Inputs(Annotation(cls, f))
          /\ ModelInit(cls, kwargs).raised = ""
          /\ fields = ModelInit(cls, kwargs).fields
    /\ relation = "None"
    /\ \E b \in InitBags(cls) : bags = [x \in BagIds |-> IF x = "app" THEN b ELSE EmptyBag]
    /\ complete = FALSE
    /\ prev = "None"
    /\ last = Op("init", <<>>, "")
    /\ charm = NoCharm

\* record.name = value
SetAttrDone(name, r) ==
    /\ fields' = r.fields
    /\ bags' = r.bags
    /\ complete' = IF r.raised = "ValueError" THEN FALSE ELSE complete
    /\ last' = Op("setattr", name, r.raised)
    /\ UNCHANGED <<cls, relation, prev, charm>>
SetAttr(name, value) ==
    SetAttrDone(name, setattr(cls, fields, relation, bags, name, value))

\* record.bind(bags[b])
BindDone(r) ==
    /\ relation' = r.relation
    /\ bags' = r.bags
    /\ complete' = (r.raised = "")
    /\ prev' = IF relation = r.relation THEN prev ELSE relation
    /\ last' = Op("bind", <<>>, r.raised)
    /\ UNCHANGED <<cls, fields, charm>>
Bind(b) == BindDone(bind(cls, fields, bags, b))

\* record.unbind()
Unbind ==
    /\ relation' = unbind(relation)
    /\ prev' = IF relation = "None" THEN prev ELSE relation
    /\ last' = Op("unbind", <<>>, "")
    /\ UNCHANGED <<cls, fields, bags, complete, charm>>

\* a read whose record shares the binding of the record read before it, as
\* it would were _relation an attribute of the class
ReadDone_SharedRelation(r) ==
    /\ fields' = IF r.raised = "" THEN r.fields ELSE fields
    /\ last' = Op("read", <<>>, r.raised)
    /\ UNCHANGED <<cls, bags, relation, complete, prev, charm>>

\* record = cls.read(bags[b]): on success the record under study is the new,
\* unbound instance
ReadDone(r) ==
    /\ fields' = IF r.raised = "" THEN r.fields ELSE fields
    /\ relation' = IF r.raised = "" THEN "None" ELSE relation
    /\ complete' = IF r.raised = "" THEN FALSE ELSE complete
    /\ prev' = IF r.raised = "" THEN "None" ELSE prev
    /\ last' = Op("read", <<>>, r.raised)
    /\ UNCHANGED <<cls, bags, charm>>
ReadBag(b) == ReadDone(read(cls, bags[b]))

\* a relation event delivered to a handler decorated with parse_relation_data
EventDone(r) ==
    /\ last' = [Op("event", <<>>, r.raised) EXCEPT
                   !.called = r.called, !.app = r.app, !.unit = r.unit]
    /\ UNCHANGED <<cls, fields, relation, bags, complete, prev, charm>>
Event(am, um) == EventDone(event_wrapper(cls, am, um, bags))

\* a relation event delivered to a handler under two stacked decorators, one
\* for each side: parse_relation_data(unit_model=cls) on top of
\* parse_relation_data(app_model=cls)
StackedDone(r) ==
    /\ last' = [Op("stacked", <<>>, r.raised) EXCEPT
                   !.called = r.called, !.app = r.app, !.unit = r.unit]
    /\ UNCHANGED <<cls, fields, relation, bags, complete, prev, charm>>
Stacked == StackedDone(stacked_wrapper(cls, FALSE, TRUE, bags))

Next ==
    \/ \E f \in FieldSet(cls) : \E v \in Inputs(Annotation(cls, f)) : SetAttr(f, v)
    \/ \E b \in BagIds : Bind(b)
    \/ Unbind
    \/ \E b \in BagIds : ReadBag(b)
    \/ \E am \in BOOLEAN, um \in BOOLEAN : Event(am, um)
    \/ Stacked

Spec == Init /\ [][Next]_vars

-----------------------------------------------------------------------------
(* HelloKubeconCharm: the handlers of the charm *)

\* the statuses the handlers give the unit, and the one it has before
UnknownStatus == "UnknownStatus"
MaintenanceStatus == "MaintenanceStatus"
ActiveStatus == "ActiveStatus"
WaitingStatus == "WaitingStatus"

url == <<"u", "r", "l">>

\* v.startswith(prefix)
startswith(s, prefix) == Len(s) >= Len(prefix) /\ SubSeq(s, 1, Len(prefix)) = prefix

is_url(v) == IF ~startswith(v.s, <<"h", "t", "t", "p">>) THEN Invalid ELSE Valid(v)

\* Annotated[str, AfterValidator(is_url)]
Url(v) == IF ~ValidateStr(v).ok THEN Invalid ELSE is_url(v)

\* PullActionModel(**params)
PullActionModel(params) ==
    ModelBuild([f \in {url} |-> IF f \in DOMAIN params THEN Url(params[f]) ELSE Invalid])

\* validate_params(PullActionModel): what the decorated handler receives as
\* params, r being the outcome of the construction of the record
validate_params(r) ==
    IF r.raised = "" THEN [t |-> "record", fields |-> r.fields]
    ELSE [t |-> "ValidationError", fields |-> r.fields]

\* _gosherve_layer(), redirect_map being self.config.redirect_map
gosherve_layer(redirect_map) ==
    [summary |-> "gosherve layer",
     description |-> "pebble config layer for gosherve",
     services |->
         [n \in {"gosherve"} |->
             [override |-> "replace",
              summary |-> "gosherve",
              command |-> "/gosherve",
              startup |-> "enabled",
              environment |-> [REDIRECT_MAP_URL |-> redirect_map, WEBROOT |-> "/srv"]]]]

\* container.add_layer("gosherve", layer, combine=True): the services of the
\* plan afterwards; a service of the layer (override: replace) takes the
\* place of the plan's service of that name
add_layer(services, layer) ==
    [n \in DOMAIN services \cup DOMAIN layer.services |->
        IF n \in DOMAIN layer.services THEN layer.services[n] ELSE services[n]]

\* _on_config_changed that adds the layer and restarts whatever the plan holds
on_config_changed_AlwaysRestart(unit, can_connect, layer) ==
    IF can_connect
    THEN [status |-> ActiveStatus, services |-> add_layer(unit.services, layer),
          added |-> TRUE, restarted |-> TRUE]
    ELSE [status |-> WaitingStatus, services |-> unit.services,
          added |-> FALSE, restarted |-> FALSE]

\* _on_config_changed(event): [status, services, added, restarted]
on_config_changed(unit, can_connect, layer) ==
    IF can_connect
    THEN IF unit.services # layer.services
         THEN [status |-> ActiveStatus, services |-> add_layer(unit.services, layer),
               added |-> TRUE, restarted |-> TRUE]
         ELSE [status |-> ActiveStatus, services |-> unit.services,
               added |-> FALSE, restarted |-> FALSE]
    ELSE [status |-> WaitingStatus, services |-> unit.services,
          added |-> FALSE, restarted |-> FALSE]

\* _fetch_site(site_src): net is what urlretrieve raises, "" when it
\* returns.  [raised, status, site], site the source of /srv/index.html
fetch_site(site_src, site, net) ==
    IF net # ""
    THEN [raised |-> net, status |-> MaintenanceStatus, site |-> site]
    ELSE [raised |-> "", status |-> ActiveStatus, site |-> site_src]

\* _pull_site_action that reports the failure and goes on to fetch
pull_site_action_NoReturn(unit, params, net) ==
    [raised |-> "", status |-> ActiveStatus, site |-> <<"h", "t", "t", "p", ":", "/", "/", "a">>,
     failed |-> IF params.t = "ValidationError"
                THEN "input params did not pass validation" ELSE "",
     results |-> "site pulled"]

\* lines 129-132, r the outcome of _fetch_site
Pulled(r) ==
    [raised |-> r.raised, status |-> r.status, site |-> r.site, failed |-> "",
     results |-> IF r.raised = "" THEN "site pulled" ELSE ""]
\* _pull_site_action(event, params) on the unit: [raised, status, site,
\* failed, results]
pull_site_action(unit, params, net) ==
    IF params.t = "ValidationError"
    THEN [raised |-> "", status |-> unit.status, site |-> unit.site,
          failed |-> "input params did not pass validation", results |-> ""]
    ELSE Pulled(fetch_site(params.fields[url].s, unit.site, net))

\* what a handler did to a record and to the bags: [raised, built, fields,
\* relation, bags], built telling whether a record came to exist
NoRecord(raised, bgs) ==
    [raised |-> raised, built |-> FALSE, fields |-> <<>>, relation |-> "None", bags |-> bgs]
\* the record m bound (b is the outcome of bind) or left unbound
Built(m, b) ==
    [raised |-> b.raised, built |-> TRUE, fields |-> m.fields,
     relation |-> b.relation, bags |-> b.bags]

\* PeerRelationAppData(my_key=42, complex_property=[SubField(subkey="enrico")])
CreatedData ==
    ModelInit("PeerRelationAppData",
              [f \in {my_key, complex_property} |->
                  IF f = my_key THEN IntV(42)
                  ELSE ListV(<<SubField(<<"e", "n", "r", "i", "c", "o">>)>>)])

\* _on_cluster_relation_created(event): il is self.unit.is_leader()
on_cluster_relation_created(il, bgs) ==
    IF ~il THEN NoRecord("", bgs)
    ELSE Built(CreatedData, bind("PeerRelationAppData", CreatedData.fields, bgs, "app"))

\* Context.cluster: cl is Context.is_leader, rel tells whether the model has
\* a cluster relation, r is the outcome of the read of its application bag.
\* A ValidationError is logged and the property returns None (built FALSE).
ClusterRead(cl, bgs, r) ==
    IF r.raised # "" THEN NoRecord(IF r.raised = "ValidationError" THEN "" ELSE r.raised, bgs)
    ELSE IF cl THEN Built(r, bind("PeerRelationAppData", r.fields, bgs, "app"))
    ELSE Built(r, [raised |-> "", relation |-> "None", bags |-> bgs])
cluster(cl, rel, bgs) ==
    IF ~rel THEN NoRecord("", bgs)
    ELSE ClusterRead(cl, bgs, read("PeerRelationAppData", bgs["app"]))

\* line 165: c is what Context.cluster did, s the outcome of the assignment
Assigned(c, s) == [c EXCEPT !.raised = s.raised, !.fields = s.fields, !.bags = s.bags]
LeaderWrite(c, v) ==
    IF c.raised # "" THEN c
    ELSE IF ~c.built THEN [c EXCEPT !.raised = "AttributeError"]
    ELSE Assigned(c, setattr("PeerRelationAppData", c.fields, c.relation, c.bags, my_key, v))
\* line 167: ing is what Context.ingress returns
IngressLog(w, ing) ==
    IF w.raised = "" /\ ing = "None" THEN [w EXCEPT !.raised = "AttributeError"] ELSE w

\* _update_status that writes whatever self.unit.is_leader() answers
update_status_NoLeaderCheck(cl, il, rel, v, ing, bgs) ==
    IngressLog(LeaderWrite(cluster(TRUE, rel, bgs), v), ing)

\* _update_status(event): v is round(random.random()*100, 2)
update_status(cl, il, rel, v, ing, bgs) ==
    IF il THEN IngressLog(LeaderWrite(cluster(cl, rel, bgs), v), ing)
    ELSE IngressLog(NoRecord("", bgs), ing)

\* self.config.redirect_map
RedirectMaps == {"https://a/routes", "https://b/routes"}

\* action parameters: none, a url, a text that is no url, a number
Params ==
    {<<>>} \cup {[f \in {url} |-> v] :
                    v \in {StrV(<<"h", "t", "t", "p", ":", "/", "/", "a">>), StrV(<<"f", "t", "p", ":", "/", "/", "a">>), IntV(1)}}
\* what urlretrieve raises
Nets == {"", "URLError"}
\* round(random.random()*100, 2)
Randoms == {FloatV(0, 0), FloatV(4217, 2)}
\* what Context.ingress returns
Ingresses == {"None", "ProviderIngressData"}

\* the unit before its first event; the application bag of the cluster
\* relation holds what an earlier leader left in it
CharmInit ==
    /\ cls = "PeerRelationAppData"
    /\ fields = [f \in FieldSet(cls) |-> NoObj]
    /\ relation = "None"
    /\ \E b \in InitBags(cls) : bags = [x \in BagIds |-> IF x = "app" THEN b ELSE EmptyBag]
    /\ complete = FALSE
    /\ prev = "None"
    /\ last = Op("init", <<>>, "")
    /\ charm = NoCharm

\* what every event does: HelloKubeconCharm.__init__ builds the Context with
\* cl, the answer of self.unit.is_leader() then; il is the answer the handler
\* gets when it asks again (cl for a handler that does not ask)
Dispatched(cl, il, params, failed, results) ==
    [charm EXCEPT !.ctx_leader = cl, !.is_leader = il, !.params = params,
                  !.failed = failed, !.results = results,
                  !.added = FALSE, !.restarted = FALSE]

\* install
InstallDone(cl, r) ==
    /\ charm' = [Dispatched(cl, cl, "", "", "") EXCEPT !.status = r.status, !.site = r.site]
    /\ last' = Op("install", <<>>, r.raised)
    /\ UNCHANGED <<cls, fields, relation, bags, complete, prev>>
Install(cl, net) ==
    InstallDone(cl, fetch_site(<<"h", "t", "t", "p", "s", ":", "/", "/", "j", "n", "s", "g", "r", ".", "u", "k", "/", "d", "e", "m", "o", "-", "s", "i", "t", "e">>, charm.site, net))

\* config-changed and gosherve-pebble-ready: can_connect is the answer of
\* container.can_connect(), redirect_map is self.config.redirect_map
ConfigChangedDone(cl, redirect_map, r) ==
    /\ charm' = [Dispatched(cl, cl, "", "", "") EXCEPT
                    !.status = r.status, !.services = r.services,
                    !.added = r.added, !.restarted = r.restarted]
    /\ last' = Op("config_changed", redirect_map, "")
    /\ UNCHANGED <<cls, fields, relation, bags, complete, prev>>
ConfigChanged(cl, can_connect, redirect_map) ==
    ConfigChangedDone(cl, redirect_map,
                      on_config_changed(charm, can_connect, gosherve_layer(redirect_map)))

\* the pull-site action
PullSiteDone(cl, p, r) ==
    /\ charm' = [Dispatched(cl, cl, p.t, r.failed, r.results) EXCEPT
                    !.status = r.status, !.site = r.site]
    /\ last' = Op("pull_site", <<>>, r.raised)
    /\ UNCHANGED <<cls, fields, relation, bags, complete, prev>>
PullSiteGot(cl, p, net) == PullSiteDone(cl, p, pull_site_action(charm, p, net))
PullSite(cl, params, net) == PullSiteGot(cl, validate_params(PullActionModel(params)), net)

\* an event whose handler may build a record: the record under study is then
\* the one it built
RecordEventDone(op, cl, il, r) ==
    /\ fields' = IF r.built THEN r.fields ELSE fields
    /\ relation' = IF r.built THEN r.relation ELSE relation
    /\ complete' = IF r.built THEN r.relation # "None" /\ r.raised = "" ELSE complete
    /\ prev' = IF r.built THEN "None" ELSE prev
    /\ bags' = r.bags
    /\ charm' = Dispatched(cl, il, "", "", "")
    /\ last' = Op(op, <<>>, r.raised)
    /\ UNCHANGED cls

\* cluster-relation-created
ClusterRelationCreated(cl, il) ==
    RecordEventDone("cluster_relation_created", cl, il,
                    on_cluster_relation_created(il, bags))

\* cluster-relation-changed: _on_cluster_relation_changed only logs what
\* parse_relation_data(app_model=PeerRelationAppData) hands it
ClusterRelationChangedDone(cl, r) ==
    /\ last' = [Op("cluster_relation_changed", <<>>, r.raised) EXCEPT
                   !.called = r.called, !.app = r.app, !.unit = r.unit]
    /\ charm' = Dispatched(cl, cl, "", "", "")
    /\ UNCHANGED <<cls, fields, relation, bags, complete, prev>>
ClusterRelationChanged(cl) ==
    ClusterRelationChangedDone(cl, event_wrapper("PeerRelationAppData", TRUE, FALSE, bags))

\* update-status
UpdateStatus(cl, il, rel, v, ing) ==
    RecordEventDone("update_status", cl, il, update_status(cl, il, rel, v, ing, bags))

CharmNext ==
    \/ \E cl \in BOOLEAN, net \in Nets : Install(cl, net)
    \/ \E cl \in BOOLEAN, can_connect \in BOOLEAN, redirect_map \in RedirectMaps :
          ConfigChanged(cl, can_connect, redirect_map)
    \/ \E cl \in BOOLEAN, p \in Params, net \in Nets : PullSite(cl, p, net)
    \/ \E cl \in BOOLEAN, il \in BOOLEAN : ClusterRelationCreated(cl, il)
    \/ \E cl \in BOOLEAN : ClusterRelationChanged(cl)
    \/ \E cl \in BOOLEAN, il \in BOOLEAN, rel \in BOOLEAN, v \in Randoms, ing \in Ingresses :
          UpdateStatus(cl, il, rel, v, ing)

CharmSpec == CharmInit /\ [][CharmNext]_vars



-----------------------------------------------------------------------------
(* Properties of binding, write-through and unbinding *)

\* bag b agrees with bag c everywhere except possibly at key k
SameExcept(b, c, k) ==
    /\ DOMAIN b \ {k} = DOMAIN c \ {k}
    /\ \A x \in DOMAIN b \ {k} : b[x] = c[x]

\* bag holds, under every declared field's key, the serialized value of rec
Synced(bag, rec) ==
    \A f \in FieldSet(cls) :
        /\ serialize(f, rec[f]).raised = ""
        /\ Replace(f) \in DOMAIN bag
        /\ bag[Replace(f)] = serialize(f, rec[f]).value

\* C1: an assignment to a declared field of an unbound record changes no bag;
\* an assignment to a bound record leaves the other bag and every key of the
\* bound bag other than the field's own key unchanged, and when it completes
\* that one key holds the serialized new value.
C1_WriteThroughOnlyWhileBound ==
    [][\A f \in FieldSet(cls) : \A v \in Inputs(Annotation(cls, f)) :
          (last'.op = "setattr" /\ SetAttr(f, v)) =>
              IF relation = "None" THEN bags' = bags
              ELSE /\ \A b \in BagIds \ {relation} : bags'[b] = bags[b]
                   /\ SameExcept(bags'[relation], bags[relation], Replace(f))
                   /\ last'.raised = "" =>
                          /\ Replace(f) \in DOMAIN bags'[relation]
                          /\ bags'[relation][Replace(f)] = serialize(f, fields'[f]).value]_vars

\* a bound record was assigned a new value, in a bag that holds other keys too
C1_Witness ==
    /\ last.op = "setattr" /\ last.raised = ""
    /\ relation # "None"
    /\ Cardinality(DOMAIN bags[relation]) > 1
    /\ bags[relation][Replace(last.f)] = serialize(last.f, fields[last.f]).value

\* C2: when bind(b) returns, bag b holds under every declared field's key the
\* serialized form of the value the record holds, the record is the same
\* (its fields are untouched) and it is bound to b.
C2_BindFlushesEveryField ==
    [][\A b \in BagIds :
          (last'.op = "bind" /\ last'.raised = "" /\ Bind(b)) =>
              /\ Synced(bags'[b], fields)
              /\ fields' = fields
              /\ relation' = b]_vars

\* bind returned on a record of several fields, none of them assigned since
C2_Witness ==
    /\ last.op = "bind" /\ last.raised = ""
    /\ relation # "None"
    /\ Cardinality(FieldSet(cls)) > 1
    /\ \A f \in FieldSet(cls) : Replace(f) \in DOMAIN bags[relation]

\* C3: while a record is bound after a bind that returned, and no assignment
\* since has raised out of serialize, every declared field's key in the bound
\* bag holds the serialized form of the field's value in memory.
C3_BoundBagInSync ==
    (relation # "None" /\ complete) => Synced(bags[relation], fields)

\* a completed assignment to a bound record changed the bag it is bound to
C3_Witness ==
    /\ relation # "None" /\ complete
    /\ last.op = "setattr" /\ last.raised = ""
    /\ bags[relation] \notin InitBags(cls)

-----------------------------------------------------------------------------
(* Properties of validation failures *)

\* every text the bag holds for a declared field is text the backend decodes
Decodable(c, bag) ==
    \A f \in FieldSet(c) : Replace(f) \in DOMAIN bag => Decode(c, bag, f).ok

\* the bag holds, for some declared field, text that fails the field's type
FailsType(c, bag) ==
    \E f \in FieldSet(c) :
        /\ Replace(f) \in DOMAIN bag
        /\ \/ ~Decode(c, bag, f).ok
           \/ ~Validate(Annotation(c, f), Decode(c, bag, f).v).ok

\* construction from the decoded bag fails at some field: a decoded value
\* fails its type, or a field without default has no key in the bag
FieldFailure(c, bag) ==
    \E f \in FieldSet(c) :
        IF Replace(f) \in DOMAIN bag
        THEN ~Validate(Annotation(c, f), Decode(c, bag, f).v).ok
        ELSE ~HasDefault(c, f)

\* rec is a record of class c: every field holds a value of its type
IsRecord(c, rec) ==
    /\ DOMAIN rec = FieldSet(c)
    /\ \A f \in FieldSet(c) :
          /\ Validate(Annotation(c, f), rec[f]).ok
          /\ Validate(Annotation(c, f), rec[f]).v = rec[f]

\* C4: when the application bag holds for a declared field text that fails
\* the field's type, an event delivered to a handler wrapped with that model
\* does not raise: the handler is called once and its parsed argument is the
\* validation failure.
C4_HandlerGetsValidationFailure ==
    [][\A um \in BOOLEAN :
          (last'.op = "event" /\ FailsType(cls, bags["app"]) /\ Event(TRUE, um)) =>
              /\ last'.raised = ""
              /\ last'.called = 1
              /\ last'.app = "ValidationError"]_vars

\* C5 as stated: whatever field-level failure the construction meets, read
\* returns (a record or a failure value) and raises nothing to its caller.
C5_ReadAlwaysReturns ==
    [][\A b \in BagIds :
          (last'.op = "read" /\ Decodable(cls, bags[b]) /\ ReadBag(b)) =>
              last'.raised = ""]_vars

\* C5, amended: read returns a record or raises, and returns no failure
\* value.  It raises ValidationError to its caller exactly when the texts
\* decode and the construction fails at some field; when it returns, what it
\* returns is a record of the class; when it raises, no record is produced.
C5_ReadReturnsRecordOrRaises ==
    [][\A b \in BagIds :
          (last'.op = "read" /\ ReadBag(b)) =>
              /\ last'.raised = "ValidationError"
                    <=> (Decodable(cls, bags[b]) /\ FieldFailure(cls, bags[b]))
              /\ last'.raised = "" => IsRecord(cls, fields') /\ relation' = "None"
              /\ last'.raised # "" => fields' = fields /\ relation' = relation]_vars

\* a read of a bag whose texts decode raised ValidationError to its caller
C5_Witness ==
    /\ last.op = "read" /\ last.raised = "ValidationError"
    /\ \E b \in BagIds : Decodable(cls, bags[b]) /\ FieldFailure(cls, bags[b])

\* C6: an assignment to a bound record of a value that fails the field's
\* validation raises ValidationError, writes nothing to any bag and leaves
\* the field's value in memory as it was.
C6_InvalidAssignmentWritesNothing ==
    [][\A f \in FieldSet(cls) : \A v \in Inputs(Annotation(cls, f)) :
          (/\ last'.op = "setattr" /\ relation # "None"
           /\ ~Validate(Annotation(cls, f), v).ok /\ SetAttr(f, v)) =>
              /\ last'.raised = "ValidationError"
              /\ bags' = bags
              /\ fields' = fields]_vars

\* an invalid assignment was refused on a bound record whose bag agrees with it
C6_Witness ==
    /\ last.op = "setattr" /\ last.raised = "ValidationError"
    /\ relation # "None" /\ complete
    /\ Synced(bags[relation], fields)

-----------------------------------------------------------------------------
(* Properties of unbinding and rebinding *)

\* C7: unbind changes no bag, leaves the record as it is and leaves it
\* unbound; every assignment made after it, while the record stays unbound,
\* changes no bag.
C7_UnbindStopsWriteThrough ==
    [][/\ (last'.op = "unbind" /\ Unbind) =>
              /\ relation' = "None"
              /\ bags' = bags
              /\ fields' = fields
       /\ \A f \in FieldSet(cls) : \A v \in Inputs(Annotation(cls, f)) :
              (/\ last'.op = "setattr" /\ relation = "None" /\ prev # "None"
               /\ SetAttr(f, v)) =>
                  /\ bags' = bags
                  /\ relation' = "None"]_vars

\* after an unbind, an assignment gave a field a value that the bag bound
\* before does not hold
C7_Witness ==
    /\ relation = "None" /\ prev # "None"
    /\ last.op = "setattr" /\ last.raised = ""
    /\ Replace(last.f) \in DOMAIN bags[prev]
    /\ bags[prev][Replace(last.f)] # serialize(last.f, fields[last.f]).value

\* C8: bind(b2) on a record bound to another bag b1 leaves b1 as it is and
\* binds the record to b2 alone; every assignment after it leaves b1
\* unchanged and, when it completes, writes the field's key of b2.
C8_RebindReplaces ==
    [][/\ \A b \in BagIds :
              (last'.op = "bind" /\ relation \notin {"None", b} /\ Bind(b)) =>
                  /\ relation' = b
                  /\ bags'[relation] = bags[relation]
       /\ \A f \in FieldSet(cls) : \A v \in Inputs(Annotation(cls, f)) :
              (/\ last'.op = "setattr" /\ relation # "None"
               /\ prev \notin {"None", relation} /\ SetAttr(f, v)) =>
                  /\ bags'[prev] = bags[prev]
                  /\ last'.raised = "" =>
                         bags'[relation][Replace(f)] = serialize(f, fields'[f]).value]_vars

\* a record rebound from one bag to another was assigned a value, which the
\* second bag holds and the first does not
C8_Witness ==
    /\ relation # "None" /\ prev \notin {"None", relation}
    /\ last.op = "setattr" /\ last.raised = ""
    /\ Replace(last.f) \in DOMAIN bags[prev]
    /\ bags[relation][Replace(last.f)] = serialize(last.f, fields[last.f]).value
    /\ bags[prev][Replace(last.f)] # bags[relation][Replace(last.f)]

-----------------------------------------------------------------------------
(* Round trips *)

\* every field of the record type is a string, an integer or a float
ScalarOnly(c) == \A f \in FieldSet(c) : Annotation(c, f) \in {"str", "int", "float"}

\* the bag holds the keys of the record type's fields and no other
FieldKeysOnly(c, bag) == DOMAIN bag = {Replace(f) : f \in FieldSet(c)}

\* C9: for a record type of scalar fields only, a read of the bag the record
\* was bound to (the bag holding what bind wrote and nothing else) returns a
\* record equal to it.
C9_ScalarRoundTrip ==
    [][\A b \in BagIds :
          (/\ last'.op = "read" /\ ScalarOnly(cls)
           /\ relation = b /\ complete /\ FieldKeysOnly(cls, bags[b])
           /\ ReadBag(b)) =>
              /\ last'.raised = ""
              /\ fields' = fields]_vars

\* C10: for a record type with a sequence field of nested records, a read of
\* the bag the record was bound to, with the same json backend, returns a
\* record whose sequence field equals the original's.
C10_NestedRoundTrip ==
    [][\A b \in BagIds :
          (/\ last'.op = "read" /\ cls = "PeerRelationAppData"
           /\ relation = b /\ complete /\ FieldKeysOnly(cls, bags[b])
           /\ ReadBag(b)) =>
              /\ last'.raised = ""
              /\ fields'[complex_property] = fields[complex_property]]_vars

-----------------------------------------------------------------------------
(* Properties of keys: absent keys and the name of a field's key *)

\* C11: on read, a field without default whose key is absent from the bag
\* makes read raise ValidationError and return no record; when read returns a
\* record, every field whose key is absent has a default and holds it.
C11_AbsentKeyDefaultOrFailure ==
    [][\A b \in BagIds :
          (last'.op = "read" /\ ReadBag(b)) =>
              /\ (\E f \in FieldSet(cls) :
                      Replace(f) \notin DOMAIN bags[b] /\ ~HasDefault(cls, f)) =>
                     last'.raised = "ValidationError"
              /\ (\A f \in FieldSet(cls) :
                      Replace(f) \in DOMAIN bags[b] \/ HasDefault(cls, f)) =>
                     (last'.raised = "" =>
                         \A f \in FieldSet(cls) :
                             Replace(f) \notin DOMAIN bags[b] =>
                                 fields'[f] = Default(cls, f))]_vars

\* key is name with every underscore replaced by a hyphen
IsHyphenated(name, key) ==
    /\ Len(key) = Len(name)
    /\ \A i \in 1..Len(name) : key[i] = IF name[i] = "_" THEN "-" ELSE name[i]

\* this step set key k of bag b, or gave it another value
Changed(b, k) ==
    /\ k \in DOMAIN bags'[b]
    /\ k \notin DOMAIN bags[b] \/ bags'[b][k] # bags[b][k]

\* the value read builds for field f of class c from the text under key k
FromKey(c, f, bag, k) ==
    Validate(Annotation(c, f),
             IF Annotation(c, f) \in {"str", "int"} THEN StrV(bag[k]) ELSE loads(bag[k]).v).v

\* C12: the key of a field is its name with every underscore replaced by a
\* hyphen, two fields of a record type never share a key, and assignment,
\* bind and read all address that key: an assignment writes no other key, a
\* bind writes only such keys and every field's, and a read builds each field
\* from the text under it.
C12_KeyIsHyphenatedName ==
    [][/\ \A f \in FieldSet(cls) : \A v \in Inputs(Annotation(cls, f)) :
              (last'.op = "setattr" /\ SetAttr(f, v)) =>
                  \A b \in BagIds : \A k \in DOMAIN bags'[b] :
                      Changed(b, k) => IsHyphenated(f, k)
       /\ \A b \in BagIds :
              (last'.op = "bind" /\ Bind(b)) =>
                  /\ \A f \in FieldSet(cls) : \A g \in FieldSet(cls) :
                         (\E k \in {Replace(f), Replace(g)} :
                              IsHyphenated(f, k) /\ IsHyphenated(g, k)) => f = g
                  /\ \A x \in BagIds : \A k \in DOMAIN bags'[x] :
                         Changed(x, k) => \E f \in FieldSet(cls) : IsHyphenated(f, k)
                  /\ last'.raised = "" =>
                         \A f \in FieldSet(cls) : \E k \in DOMAIN bags'[b] :
                             /\ IsHyphenated(f, k)
                             /\ bags'[b][k] = serialize(f, fields[f]).value
       /\ \A b \in BagIds :
              (last'.op = "read" /\ last'.raised = "" /\ ReadBag(b)) =>
                  \A f \in FieldSet(cls) : \A k \in DOMAIN bags[b] :
                      IsHyphenated(f, k) => fields'[f] = FromKey(cls, f, bags[b], k)]_vars

\* a field whose name has two underscores was assigned on a bound record and
\* its key, with two hyphens, holds the value
C12_Witness ==
    /\ last.op = "setattr" /\ last.raised = ""
    /\ relation # "None"
    /\ Cardinality({i \in 1..Len(last.f) : last.f[i] = "_"}) > 1
    /\ Replace(last.f) \in DOMAIN bags[relation]
    /\ "_" \notin {Replace(last.f)[i] : i \in 1..Len(last.f)}

-----------------------------------------------------------------------------
(* Properties of the decorator *)

\* C13: an event delivered to a handler under two stacked parse_relation_data
\* decorators, with bags whose texts all decode, raises nothing and reaches
\* the handler once, each wrapper passing on what the one before it appended.
C13_StackedDecoratorsCompose ==
    (/\ last.op = "stacked"
     /\ Decodable(cls, bags["app"]) /\ Decodable(cls, bags["unit"])) =>
        /\ last.raised = ""
        /\ last.called = 1

\* C14: when no model is given for a side, an event still reaches the handler
\* once and raises nothing, and None is passed in the position of that side.
C14_NoModelNoReadHandlerInvoked ==
    [][\A am \in BOOLEAN : \A um \in BOOLEAN :
          (last'.op = "event" /\ (~am \/ ~um) /\ Event(am, um)) =>
              /\ last'.raised = ""
              /\ last'.called = 1
              /\ ~am => last'.app = "None"
              /\ ~um => last'.unit = "None"]_vars

-----------------------------------------------------------------------------
(* Properties of values serialize refuses *)

\* v is of none of the types serialize writes
Unserializable(v) == v.t \notin {"str", "int", "bool", "float", "model", "dict", "list"}

\* C15: a value serialize does not write (None held by an optional field)
\* raises ValueError when, and only when, it is written: an assignment of it
\* to a bound record raises and writes nothing, an assignment to an unbound
\* record and the construction of a record by read raise nothing, and a bind
\* raises exactly when some field holds such a value and leaves the key of
\* every such field as it was.
C15_UnserializableRaisesAtWrite ==
    [][/\ \A f \in FieldSet(cls) : \A v \in Inputs(Annotation(cls, f)) :
              (/\ last'.op = "setattr" /\ Unserializable(v)
               /\ Validate(Annotation(cls, f), v).ok /\ SetAttr(f, v)) =>
                  /\ fields'[f] = v
                  /\ bags' = bags
                  /\ last'.raised = IF relation = "None" THEN "" ELSE "ValueError"
       /\ \A b \in BagIds :
              (last'.op = "bind" /\ Bind(b)) =>
                  /\ last'.raised = "ValueError"
                        <=> \E f \in FieldSet(cls) : Unserializable(fields[f])
                  /\ \A f \in FieldSet(cls) :
                         Unserializable(fields[f]) =>
                             /\ Replace(f) \in DOMAIN bags'[b] <=> Replace(f) \in DOMAIN bags[b]
                             /\ Replace(f) \in DOMAIN bags[b] =>
                                    bags'[b][Replace(f)] = bags[b][Replace(f)]
       /\ \A b \in BagIds :
              (last'.op = "read" /\ ReadBag(b)) => last'.raised # "ValueError"]_vars

\* a bind raised on a record that holds None, whose key the bag does not hold
C15_Witness ==
    /\ last.op = "bind" /\ last.raised = "ValueError"
    /\ relation # "None"
    /\ \E f \in FieldSet(cls) :
          fields[f] = NoneV /\ Replace(f) \notin DOMAIN bags[relation]

\* the position in Fields(c) of the first field of rec that serialize
\* refuses, 0 when there is none
FirstRefused(c, rec) ==
    IF \A k \in 1..Len(Fields(c)) : ~Unserializable(rec[Fields(c)[k]]) THEN 0
    ELSE CHOOSE k \in 1..Len(Fields(c)) :
             /\ Unserializable(rec[Fields(c)[k]])
             /\ \A j \in 1..(k - 1) : ~Unserializable(rec[Fields(c)[j]])

\* C18: a bind that fails on an unserializable field leaves the record bound
\* to the bag, with the fields declared before the failing one written and
\* the key of the failing field and of every later field as it was; an
\* assignment of a serializable value to a record left bound without a
\* completed flush still writes through to that bag.
C18_BindNotAtomic ==
    [][/\ \A b \in BagIds :
              (/\ last'.op = "bind" /\ FirstRefused(cls, fields) # 0
               /\ Bind(b)) =>
                  /\ last'.raised = "ValueError"
                  /\ relation' = b
                  /\ \A j \in 1..Len(Fields(cls)) :
                         IF j < FirstRefused(cls, fields)
                         THEN /\ Replace(Fields(cls)[j]) \in DOMAIN bags'[b]
                              /\ bags'[b][Replace(Fields(cls)[j])] =
                                     serialize(Fields(cls)[j], fields[Fields(cls)[j]]).value
                         ELSE /\ Replace(Fields(cls)[j]) \in DOMAIN bags'[b]
                                     <=> Replace(Fields(cls)[j]) \in DOMAIN bags[b]
                              /\ Replace(Fields(cls)[j]) \in DOMAIN bags[b] =>
                                     bags'[b][Replace(Fields(cls)[j])] =
                                         bags[b][Replace(Fields(cls)[j])]
       /\ \A f \in FieldSet(cls) : \A v \in Inputs(Annotation(cls, f)) :
              (/\ last'.op = "setattr" /\ relation # "None" /\ ~complete
               /\ Validate(Annotation(cls, f), v).ok
               /\ ~Unserializable(Validate(Annotation(cls, f), v).v)
               /\ SetAttr(f, v)) =>
                  /\ last'.raised = ""
                  /\ relation' = relation
                  /\ Replace(f) \in DOMAIN bags'[relation]
                  /\ bags'[relation][Replace(f)] =
                         serialize(f, Validate(Annotation(cls, f), v).v).value]_vars

\* after a bind that failed on limit_rps (its key is not in the bound bag, so
\* no bind to this bag completed) and had written service_hostname before it,
\* an assignment to max_body_size, declared after the failing field, was
\* written through
C18_Witness ==
    /\ cls = "IngressRelationData"
    /\ relation # "None" /\ ~complete
    /\ fields[limit_rps] = NoneV
    /\ Replace(limit_rps) \notin DOMAIN bags[relation]
    /\ Replace(service_hostname) \in DOMAIN bags[relation]
    /\ last.op = "setattr" /\ last.raised = "" /\ last.f = max_body_size
    /\ Replace(max_body_size) \in DOMAIN bags[relation]
    /\ bags[relation][Replace(max_body_size)] = PyStr(fields[max_body_size])

-----------------------------------------------------------------------------
(* Frame properties *)

\* the external keys of the declared fields of class c
FieldKeys(c) == {Replace(f) : f \in FieldSet(c)}

\* C19: no step of the binding layer (bind, unbind, assignment, read, event)
\* deletes a key of a bag, and a key a step sets or gives another value is
\* the external key of a declared field: an entry under any other key keeps
\* its value.
C19_ForeignKeysKept ==
    [][\A b \in BagIds :
          /\ DOMAIN bags[b] \subseteq DOMAIN bags'[b]
          /\ \A k \in DOMAIN bags'[b] : Changed(b, k) => k \in FieldKeys(cls)
          /\ \A k \in DOMAIN bags[b] \ FieldKeys(cls) : bags'[b][k] = bags[b][k]]_vars

\* a record was bound to a bag that holds an entry under a key of no declared
\* field, every field was written, and so was a later assignment
C19_Witness ==
    /\ relation # "None" /\ complete
    /\ last.op = "setattr" /\ last.raised = ""
    /\ Synced(bags[relation], fields)
    /\ \E k \in DOMAIN bags[relation] : k \notin FieldKeys(cls)

\* C20: a read changes no bag and, when it returns, the record it returns is
\* bound to nothing; an assignment to a record that came from read (or from
\* construction) and was not bound since changes no bag.
C20_ReadReturnsUnbound ==
    [][/\ \A b \in BagIds :
              (last'.op = "read" /\ ReadBag(b)) =>
                  /\ bags' = bags
                  /\ last'.raised = "" => relation' = "None"
       /\ \A f \in FieldSet(cls) : \A v \in Inputs(Annotation(cls, f)) :
              (/\ last'.op = "setattr" /\ relation = "None" /\ prev = "None"
               /\ SetAttr(f, v)) =>
                  bags' = bags]_vars

\* the record was read from the application bag (its complex_property is
\* the one the bag holds, which no constructed record has), my_key was then
\* assigned another value than the bag's, and the bag still holds its own
C20_Witness ==
    /\ cls = "PeerRelationAppData"
    /\ relation = "None" /\ prev = "None"
    /\ last.op = "setattr" /\ last.raised = "" /\ last.f = my_key
    /\ Replace(complex_property) \in DOMAIN bags["app"]
    /\ Replace(my_key) \in DOMAIN bags["app"]
    /\ bags["app"][Replace(complex_property)] = <<"[", "{", "\"", "s", "u", "b", "k", "e", "y", "\"", ":", " ", "\"", "e", "n", "r", "i", "c", "o", "\"", "}", "]">>
    /\ fields[complex_property] =
           FromKey(cls, complex_property, bags["app"], Replace(complex_property))
    /\ bags["app"][Replace(my_key)] = <<"4", "2", ".", "0">>
    /\ fields[my_key] # FromKey(cls, my_key, bags["app"], Replace(my_key))

-----------------------------------------------------------------------------
(* Properties of the charm's handlers *)

\* C16: an event handled by a unit that is not the leader leaves both bags
\* of the cluster relation as they were, builds no record and binds none; so
\* the application bag changes only in an event handled by the leader.
C16_OnlyLeaderWritesAppBag ==
    [][/\ ~charm'.is_leader =>
              /\ bags' = bags
              /\ fields' = fields
              /\ relation' = relation
       /\ bags'["app"] # bags["app"] =>
              /\ charm'.is_leader
              /\ last'.op \in {"cluster_relation_created", "update_status"}]_vars

\* update-status was handled by a unit that is not the leader, after a leader
\* had written the random my_key to the application bag, which still holds it
C16_Witness ==
    /\ last.op = "update_status" /\ last.raised = ""
    /\ ~charm.is_leader
    /\ Replace(my_key) \in DOMAIN bags["app"]
    /\ bags["app"][Replace(my_key)] = <<"4", "2", ".", "1", "7">>

\* C17: the pull-site handler is always invoked.  With parameters that fail
\* validation it receives the validation failure, marks the action failed,
\* and leaves the unit status, the site and the action results as they were
\* (no results); with parameters that validate it receives the record, does
\* not mark the action failed, and sets the result 'site pulled' exactly when
\* the site was fetched from the url of the parameters.
C17_PullSiteFailsOnInvalidParams ==
    [][\A cl \in BOOLEAN : \A p \in Params : \A net \in Nets :
          (last'.op = "pull_site" /\ PullSite(cl, p, net)) =>
              IF PullActionModel(p).raised # ""
              THEN /\ charm'.params = "ValidationError"
                   /\ last'.raised = ""
                   /\ charm'.failed # ""
                   /\ charm'.status = charm.status
                   /\ charm'.site = charm.site
                   /\ charm'.results = ""
              ELSE /\ charm'.params = "record"
                   /\ charm'.failed = ""
                   /\ charm'.results = "site pulled" <=> net = ""
                   /\ charm'.results = "site pulled" =>
                          /\ charm'.site = p[url].s
                          /\ charm'.status = ActiveStatus
                          /\ startswith(p[url].s, <<"h", "t", "t", "p">>)]_vars

\* the action was run with parameters that did not validate on a unit whose
\* site had been fetched: it is marked failed, and the unit is still active
C17_Witness ==
    /\ last.op = "pull_site" /\ last.raised = ""
    /\ charm.params = "ValidationError"
    /\ charm.failed # "" /\ charm.results = ""
    /\ charm.status = ActiveStatus
    /\ charm.site # <<>>

\* C21: a config-changed (or pebble-ready) event that cannot reach the
\* container leaves the plan as it was, restarts nothing and makes the unit
\* Waiting; one that reaches it makes the unit Active, and adds the layer and
\* restarts the service exactly when the services of the plan differ from
\* those of the desired layer, after which the plan holds the desired
\* services.  So a config-changed that follows a config-changed which reached
\* the container with the same configuration adds and restarts nothing.
C21_RestartOnlyWhenPlanDiffers ==
    [][\A cl \in BOOLEAN : \A can_connect \in BOOLEAN : \A m \in RedirectMaps :
          (last'.op = "config_changed" /\ ConfigChanged(cl, can_connect, m)) =>
              /\ ~can_connect =>
                     /\ charm'.services = charm.services
                     /\ ~charm'.added /\ ~charm'.restarted
                     /\ charm'.status = WaitingStatus
              /\ can_connect =>
                     /\ charm'.status = ActiveStatus
                     /\ charm'.added <=> charm.services # gosherve_layer(m).services
                     /\ charm'.restarted <=> charm.services # gosherve_layer(m).services
                     /\ charm'.services = gosherve_layer(m).services
                     /\ charm'.services["gosherve"].environment.REDIRECT_MAP_URL = m
              /\ (last.op = "config_changed" /\ last.f = m /\ charm.status = ActiveStatus) =>
                     /\ ~charm'.added /\ ~charm'.restarted
                     /\ charm'.services = charm.services]_vars

\* a second config-changed with the configuration of the one before it, both
\* reaching the container: the plan holds the layer and nothing was restarted
C21_Witness ==
    /\ last.op = "config_changed"
    /\ charm.status = ActiveStatus
    /\ charm.services = gosherve_layer(last.f).services
    /\ ~charm.added /\ ~charm.restarted
=============================================================================
